---- MODULE Spec2Model ----
(***************************************************************************)
(* Model of MLPEvaluator (modules/prediction/evaluator/vehicle/            *)
(* mlp_evaluator.cc): Evaluate, ExtractFeatureValues,                      *)
(* SetObstacleFeatureValues, SetLaneFeatureValues, LoadModel and           *)
(* ComputeProbability.                                                     *)
(*                                                                         *)
(* Numbers.  The feature extractors only move doubles around (push_back,   *)
(* copy, concatenate); the doubles they compute with sin, atan2, mean and  *)
(* division are kept as uninterpreted terms [op |-> name, args |-> the     *)
(* integers the expression reads], so two scalars are equal exactly when   *)
(* they are the same expression over the same data.  The forward pass      *)
(* computes on integers (exact in a double); sigmoid and tanh are rounded  *)
(* to the nearest integer.                                                 *)
(***************************************************************************)
EXTENDS Integers, Sequences, FiniteSets, TLC

(***************************************************************************)
(* Bounds of the model.                                                    *)
(***************************************************************************)
\* LANE_FEATURE_SIZE / 4
LaneTuples == 3
\* lane segments of a lane sequence
MaxSegments == 3
\* lane points of a lane segment
MaxPoints == 3
\* lane points of a lane sequence, all segments together
MaxLanePoints == 5
\* features in an obstacle's history
MaxHistory == 3
\* timestamps are 0..MaxTime
MaxTime == 2
\* features in the history of an evaluated obstacle
EvalMaxHistory == 2
\* lane sequences in the lane graph of an evaluated obstacle
MaxSequences == 2
\* lane points of a lane sequence of an evaluated obstacle
EvalMaxLanePoints == 1
\* layers of a model
MaxLayers == 2
\* input and output dimensions are at most MaxDim
MaxDim == 2

LANE_FEATURE_SIZE == 4 * LaneTuples
OBSTACLE_FEATURE_SIZE == 14
\* the history window, in the model's time unit
FLAGS_prediction_duration == 1

VARIABLES
    FLAGS_enable_kf_tracking,   \* gflag read by both extractors
    lane_call,                  \* the call of SetLaneFeatureValues: arguments and result
    obstacle_call,              \* the call of SetObstacleFeatureValues: arguments and result
    pc,                         \* where Evaluate is: "idle", "loop", "returned"
    obstacle_ptr,               \* Evaluate's argument
    seq_i,                      \* Evaluate's loop index i
    feature_values_,            \* member: the assembled input vector
    obstacle_feature_values_map_,  \* member: obstacle id -> obstacle block
    extract,                    \* locals of the last ExtractFeatureValues
    log,                        \* what Evaluate did, one entry per lane sequence
    model_ptr_,                 \* member: the loaded model, or nullptr
    probability_call            \* the call of ComputeProbability: its result

callVars == <<lane_call, obstacle_call>>

netVars == <<model_ptr_, probability_call>>

evalVars == <<pc, obstacle_ptr, seq_i, feature_values_,
              obstacle_feature_values_map_, extract, log>>

vars == <<FLAGS_enable_kf_tracking, callVars, evalVars, netVars>>

NoCall == [called |-> FALSE]

nullptr == [null |-> TRUE]

\* the evaluator after construction, before any Evaluate
EvalIdle ==
    /\ pc = "idle"
    /\ obstacle_ptr = nullptr
    /\ seq_i = 0
    /\ feature_values_ = <<>>
    /\ obstacle_feature_values_map_ = <<>>
    /\ extract = NoCall
    /\ log = <<>>

\* no model loaded, no probability computed
NetIdle ==
    /\ model_ptr_ = nullptr
    /\ probability_call = NoCall

(***************************************************************************)
(* Helpers on sequences.                                                   *)
(***************************************************************************)
SeqsUpTo(S, n) == UNION {[1..k -> S] : k \in 0..n}

Term(name, a) == [op |-> name, args |-> a]

(***************************************************************************)
(* Lane sequences.  A lane point carries position (x, y), relative_l,      *)
(* heading and angle_diff; its values are fixed by where it sits in the    *)
(* lane sequence (segment i, point j), so that every point is              *)
(* distinguishable, and only has_position is drawn freely.                 *)
(***************************************************************************)
LanePoint(i, j, hp) ==
    [has_position |-> hp,
     position     |-> [x |-> 10 * i + j, y |-> i],
     relative_l   |-> 100 + 10 * i + j,
     heading      |-> 200 + 10 * i + j,
     angle_diff   |-> 300 + 10 * i + j]

\* A lane segment from the has_position flags of its points.
LaneSegment(i, flags) ==
    [lane_point |-> [j \in 1..Len(flags) |-> LanePoint(i, j, flags[j])]]

\* A lane sequence from the flags of its segments.
LaneSequence(segflags) ==
    [lane_segment |-> [i \in 1..Len(segflags) |-> LaneSegment(i, segflags[i])]]

RECURSIVE TotalLen(_)
TotalLen(ss) == IF ss = <<>> THEN 0 ELSE Len(Head(ss)) + TotalLen(Tail(ss))

LaneSequences(maxseg, maxpt, maxtotal) ==
    {LaneSequence(sf) :
        sf \in {x \in SeqsUpTo(SeqsUpTo(BOOLEAN, maxpt), maxseg) :
                   TotalLen(x) <= maxtotal}}

(***************************************************************************)
(* The pose part of the obstacle's latest Feature, as SetLaneFeatureValues *)
(* reads it.                                                               *)
(***************************************************************************)
PoseFeatures ==
    {[IsInitialized |-> init, has_position |-> hp,
      position |-> [x |-> 1, y |-> 2], theta |-> 7, t_velocity_heading |-> 8] :
        init \in BOOLEAN, hp \in BOOLEAN}

(***************************************************************************)
(* SetLaneFeatureValues.                                                   *)
(***************************************************************************)
\* lines 213-214
LaneHeading(feature, kf) ==
    IF kf THEN feature.t_velocity_heading ELSE feature.theta

\* lines 229-235: the four scalars pushed for one lane point
LanePointValues(lane_point, feature, heading) ==
    LET diff_x == lane_point.position.x - feature.position.x
        diff_y == lane_point.position.y - feature.position.y
    IN  << Term("sin(atan2(diff_x,diff_y)-heading)", <<diff_x, diff_y, heading>>),
           Term("relative_l", <<lane_point.relative_l>>),
           Term("heading", <<lane_point.heading>>),
           Term("angle_diff", <<lane_point.angle_diff>>) >>

\* lines 216 and 221: the guard that ends both loops
LaneBlockFullNever(feature_values) == FALSE

LaneBlockFull(feature_values) == Len(feature_values) >= LANE_FEATURE_SIZE

\* lines 225-228: a lane point without position is skipped
LanePointSkippedNever(lane_point) == FALSE

LanePointSkipped(lane_point) == ~lane_point.has_position

\* lines 220-236: the loop over the lane points of segment i, from point j on.
\* st.values is *feature_values, st.reads lists the lane points fetched
\* with lane_segment.lane_point(j), in order.
RECURSIVE LanePointLoop(_, _, _, _, _, _)
LanePointLoop(lane_segment, i, j, feature, heading, st) ==
    IF j > Len(lane_segment.lane_point) THEN st
    ELSE IF LaneBlockFull(st.values) THEN st
    ELSE LET lane_point == lane_segment.lane_point[j]
             read == [st EXCEPT !.reads = Append(@, <<i, j>>)]
         IN  IF LanePointSkipped(lane_point)
             THEN LanePointLoop(lane_segment, i, j + 1, feature, heading, read)
             ELSE LanePointLoop(lane_segment, i, j + 1, feature, heading,
                      [read EXCEPT !.values =
                           @ \o LanePointValues(lane_point, feature, heading)])

\* lines 215-237: the loop over the lane segments, from segment i on
RECURSIVE LaneSegmentLoop(_, _, _, _, _)
LaneSegmentLoop(lane_sequence, i, feature, heading, st) ==
    IF i > Len(lane_sequence.lane_segment) THEN st
    ELSE IF LaneBlockFull(st.values) THEN st
    ELSE LaneSegmentLoop(lane_sequence, i + 1, feature, heading,
             LanePointLoop(lane_sequence.lane_segment[i], i, 1,
                           feature, heading, st))

\* lines 241-248: the four scalars one round of padding appends
PadTupleFirst(feature_values) == SubSeq(feature_values, 1, 4)

PadTuple(feature_values) ==
    LET size == Len(feature_values)
    IN  << feature_values[size - 3], feature_values[size - 2],
           feature_values[size - 1], feature_values[size] >>

\* lines 239-250
RECURSIVE LanePadLoop(_)
LanePadLoop(feature_values) ==
    IF Len(feature_values) >= 4 /\ Len(feature_values) < LANE_FEATURE_SIZE
    THEN LanePadLoop(feature_values \o PadTuple(feature_values))
    ELSE feature_values

\* lines 200-251: the result, with the lane points the call fetched
SetLaneFeatureValues(feature, lane_sequence, kf) ==
    IF ~feature.IsInitialized THEN [values |-> <<>>, reads |-> <<>>]
    ELSE IF ~feature.has_position THEN [values |-> <<>>, reads |-> <<>>]
    ELSE LET st == LaneSegmentLoop(lane_sequence, 1, feature,
                                   LaneHeading(feature, kf),
                                   [values |-> <<>>, reads |-> <<>>])
         IN  [st EXCEPT !.values = LanePadLoop(@)]

(***************************************************************************)
(* Obstacles.  A Feature of the history carries a timestamp, the raw and   *)
(* the filtered speed, the pose and, when it has a lane with a lane        *)
(* feature, the lane-relative measurements.  The measurements of the       *)
(* feature at history index k are fixed by k, so that every sample is      *)
(* distinguishable; IsInitialized, the timestamp and the presence of the   *)
(* lane and of the lane feature are drawn freely.  The history is not      *)
(* assumed sorted by time: MLPEvaluator does not enforce it.               *)
(***************************************************************************)
LaneKinds == {"no_lane", "lane", "lane_feature"}

Feature(k, init, ts, lane_kind, has_pos, nseq) ==
    [IsInitialized      |-> init,
     timestamp          |-> ts,
     has_position       |-> has_pos,
     position           |-> [x |-> 1, y |-> 2],
     theta              |-> 7,
     t_velocity_heading |-> 8,
     speed              |-> 50 + k,
     t_speed            |-> 60 + k,
     has_lane           |-> lane_kind # "no_lane",
     lane |-> [has_lane_feature |-> lane_kind = "lane_feature",
               lane_feature |-> [angle_diff             |-> 10 + k,
                                 lane_l                 |-> 20 + k,
                                 dist_to_left_boundary  |-> 30 + k,
                                 dist_to_right_boundary |-> 40 + k,
                                 lane_turn_type         |-> 0],
               has_lane_graph |-> nseq > 0,
               lane_graph |-> [lane_sequence_size |-> nseq]]]

\* what is drawn freely for a feature of the history; an uninitialized
\* feature has nothing else the evaluator reads
FeatureKinds ==
    {[init |-> FALSE, ts |-> 0, lane_kind |-> "no_lane"]}
    \cup {[init |-> TRUE, ts |-> ts, lane_kind |-> lk] :
             ts \in 0..MaxTime, lk \in LaneKinds}

HistoryOf(kinds) ==
    [k \in 1..Len(kinds) |->
        Feature(k, kinds[k].init, kinds[k].ts, kinds[k].lane_kind,
                kinds[k].init, 0)]

\* the histories of 1..maxlen features, newest first
Histories(maxlen) ==
    {HistoryOf(kinds) : kinds \in SeqsUpTo(FeatureKinds, maxlen) \ {<<>>}}

\* Obstacle::latest_feature(): the front of the history
latest_feature(obstacle) == obstacle.history[1]

\* Obstacle::timestamp(): the timestamp of the latest feature
timestamp(obstacle) == latest_feature(obstacle).timestamp

Obstacle(history) == [id |-> 1, history |-> history]

\* apollo::common::math::DoubleCompare, on the model's integer timestamps
DoubleCompare(x, y) == IF x < y THEN -1 ELSE IF x > y THEN 1 ELSE 0

(***************************************************************************)
(* SetObstacleFeatureValues.                                               *)
(***************************************************************************)
EmptySeries ==
    [thetas |-> <<>>, lane_ls |-> <<>>, dist_lbs |-> <<>>, dist_rbs |-> <<>>,
     lane_types |-> <<>>, speeds |-> <<>>, timestamps |-> <<>>,
     count |-> 0,
     scanned |-> <<>>,    \* history indices fetched with feature(i), in order
     collected |-> <<>>]  \* history indices whose samples were pushed, in order

\* lines 123-144: what the loop body does with one feature, a mutation of it
\* that filters the whole history by time instead of stopping
ScanStepFilter(feature, duration) ==
    IF ~feature.IsInitialized THEN "continue"
    ELSE IF DoubleCompare(feature.timestamp, duration) < 0 THEN "continue"
    ELSE IF feature.has_lane /\ feature.lane.has_lane_feature THEN "collect"
    ELSE "next"

ScanStep(feature, duration) ==
    IF ~feature.IsInitialized THEN "continue"
    ELSE IF DoubleCompare(feature.timestamp, duration) < 0 THEN "break"
    ELSE IF feature.has_lane /\ feature.lane.has_lane_feature THEN "collect"
    ELSE "next"

\* lines 131-143
Collect(st, i, feature, kf) ==
    [st EXCEPT
        !.thetas     = Append(@, feature.lane.lane_feature.angle_diff),
        !.lane_ls    = Append(@, feature.lane.lane_feature.lane_l),
        !.dist_lbs   = Append(@, feature.lane.lane_feature.dist_to_left_boundary),
        !.dist_rbs   = Append(@, feature.lane.lane_feature.dist_to_right_boundary),
        !.lane_types = Append(@, feature.lane.lane_feature.lane_turn_type),
        !.timestamps = Append(@, feature.timestamp),
        !.speeds     = Append(@, IF kf THEN feature.t_speed ELSE feature.speed),
        !.count      = @ + 1,
        !.collected  = Append(@, i)]

\* lines 121-145: the loop over the history, from index i on (1-based here)
RECURSIVE HistoryLoop(_, _, _, _, _)
HistoryLoop(obstacle, i, duration, kf, st) ==
    IF i > Len(obstacle.history) THEN st
    ELSE LET feature == obstacle.history[i]
             step == ScanStep(feature, duration)
             seen == [st EXCEPT !.scanned = Append(@, i)]
         IN  IF step = "break" THEN seen
             ELSE IF step = "collect"
             THEN HistoryLoop(obstacle, i + 1, duration, kf,
                              Collect(seen, i, feature, kf))
             ELSE HistoryLoop(obstacle, i + 1, duration, kf, seen)

FirstTwo(series) == SubSeq(series, 1, IF Len(series) > 1 THEN 2 ELSE 1)

FrontBack(series) == <<series[1], series[Len(series)]>>

\* lines 149-189: the 14 scalars, each the expression the code computes over
\* the samples it reads
ObstacleValues(s) ==
    LET lateral == FirstTwo(s.thetas) \o s.speeds
        rate(dists) == IF Len(s.timestamps) > 1
                       THEN Term("(front-back)/time_diff",
                                 FrontBack(dists) \o FrontBack(s.timestamps))
                       ELSE Term("0.0", <<>>)
    IN  << Term("theta_filtered", FirstTwo(s.thetas)),
           Term("mean", s.thetas),
           Term("theta_filtered-theta_mean", s.thetas),
           Term("thetas[0]-thetas[1]", FirstTwo(s.thetas)),
           Term("lane_l_filtered", FirstTwo(s.lane_ls)),
           Term("mean", s.lane_ls),
           Term("lane_l_filtered-lane_l_mean", s.lane_ls),
           Term("mean", s.speeds),
           Term("front", <<s.dist_lbs[1]>>),
           rate(s.dist_lbs),
           Term("time_to_lb", <<s.dist_lbs[1]>> \o lateral),
           Term("front", <<s.dist_rbs[1]>>),
           rate(s.dist_rbs),
           Term("time_to_rb", <<s.dist_rbs[1]>> \o lateral) >>

\* lines 146-148: the early return, and a mutation that emits a block of
\* zeros instead
NoSamplesZeros(count) == [k \in 1..OBSTACLE_FEATURE_SIZE |-> Term("0.0", <<>>)]

NoSamples(count) == <<>>

\* lines 106-198: the block, with the series it was computed from
SetObstacleFeatureValues(obstacle, kf) ==
    LET duration == timestamp(obstacle) - FLAGS_prediction_duration
        s == HistoryLoop(obstacle, 1, duration, kf, EmptySeries)
    IN  [values |-> IF s.count <= 0 THEN NoSamples(s.count) ELSE ObstacleValues(s),
         series |-> s]

(***************************************************************************)
(* Evaluate and ExtractFeatureValues.                                      *)
(***************************************************************************)
\* the obstacles handed to Evaluate: nullptr, or an obstacle whose latest
\* feature, when initialized, has the largest timestamp, may lack a position
\* and whose lane, if any, has a lane graph of 0..MaxSequences lane sequences
EvalObstacles ==
    {nullptr} \cup
    {[null |-> FALSE, id |-> 1,
      history |-> [h EXCEPT ![1].has_position = hp,
                            ![1].lane.has_lane_graph = h[1].has_lane,
                            ![1].lane.lane_graph.lane_sequence_size =
                                IF h[1].has_lane THEN nseq ELSE 0]] :
        h \in {x \in Histories(EvalMaxHistory) :
                  x[1].IsInitialized => x[1].timestamp = MaxTime},
        hp \in BOOLEAN, nseq \in 0..MaxSequences}

\* the lane sequences of an evaluated obstacle: no segment, or one segment
EvalLaneSequences ==
    {LaneSequence(<<>>)} \cup
    {LaneSequence(<<flags>>) : flags \in SeqsUpTo(BOOLEAN, EvalMaxLanePoints)}

\* lines 29-31
Clear(map) == <<>>

\* lines 41-62: Evaluate works on a copy of the latest feature; mutable_lane()
\* and mutable_lane_graph() create the sub-message on the copy when it is
\* absent, which sets its has-bit. The result is how Evaluate goes on.
Validate(obstacle) ==
    IF obstacle.null THEN "invalid obstacle"
    ELSE LET latest == latest_feature(obstacle)
             with_lane == [latest EXCEPT !.has_lane = TRUE]
             with_graph == [with_lane EXCEPT !.lane.has_lane_graph = TRUE]
         IN  IF ~latest.IsInitialized THEN "no latest feature"
             ELSE IF ~with_lane.has_lane THEN "no lane feature"
             ELSE IF ~with_graph.lane.has_lane_graph THEN "no lane graph"
             ELSE IF with_graph.lane.lane_graph.lane_sequence_size = 0
                  THEN "no lane sequences"
             ELSE "loop"

lane_sequence_size(obstacle) ==
    latest_feature(obstacle).lane.lane_graph.lane_sequence_size

\* lines 100-103: the assembly of the input vector; both inserts take the
\* lane block
Assemble(obstacle_feature_values, lane_feature_values) ==
    lane_feature_values \o lane_feature_values

\* lines 77-82: the map is read and never written
MapAfterLookup(map, id, obstacle_feature_values) == map

\* lines 84 and 93: the block-length checks
ObstacleBlockOK(obstacle_feature_values) ==
    Len(obstacle_feature_values) = OBSTACLE_FEATURE_SIZE

LaneBlockOK(lane_feature_values) ==
    Len(lane_feature_values) = LANE_FEATURE_SIZE

\* lines 72-104: the locals and members ExtractFeatureValues leaves behind
ExtractFeatureValues(obstacle, lane_sequence, map, kf) ==
    LET id == obstacle.id
        cached == id \in DOMAIN map
        obstacle_feature_values ==
            IF cached THEN map[id]
            ELSE SetObstacleFeatureValues(obstacle, kf).values
        lane_feature_values ==
            SetLaneFeatureValues(latest_feature(obstacle), lane_sequence, kf).values
        lane_ran == ObstacleBlockOK(obstacle_feature_values)
        assembled == lane_ran /\ LaneBlockOK(lane_feature_values)
    IN  [called                  |-> TRUE,
         lane_sequence           |-> lane_sequence,
         from_map                |-> cached,
         obstacle_feature_values |-> obstacle_feature_values,
         lane_ran                |-> lane_ran,
         lane_feature_values     |-> IF lane_ran THEN lane_feature_values ELSE <<>>,
         assembled               |-> assembled,
         feature_values_         |-> IF assembled
                                     THEN Assemble(obstacle_feature_values,
                                                   lane_feature_values)
                                     ELSE <<>>,
         map                     |-> MapAfterLookup(map, id, obstacle_feature_values)]

\* lines 33-62: entry of Evaluate, up to the loop
EvaluateEnter ==
    /\ pc = "idle"
    /\ \E obstacle \in EvalObstacles :
          /\ obstacle_ptr' = obstacle
          /\ pc' = IF Validate(obstacle) = "loop" THEN "loop" ELSE "returned"
    /\ obstacle_feature_values_map_' = Clear(obstacle_feature_values_map_)
    /\ seq_i' = 0
    /\ UNCHANGED <<feature_values_, extract, log, FLAGS_enable_kf_tracking,
                   callVars, netVars>>

\* lines 64-69: one iteration of the loop. The lane sequence seq_i of the lane
\* graph is drawn when the loop reaches it; nothing reads it earlier.
\* Evaluate does nothing with the assembled vector: ComputeProbability is
\* not called.
EvaluateLoopBody ==
    /\ pc = "loop"
    /\ seq_i < lane_sequence_size(obstacle_ptr)
    /\ \E lane_sequence \in EvalLaneSequences :
          LET e == ExtractFeatureValues(obstacle_ptr, lane_sequence,
                                        obstacle_feature_values_map_,
                                        FLAGS_enable_kf_tracking)
          IN  /\ extract' = e
              /\ feature_values_' = e.feature_values_
              /\ obstacle_feature_values_map_' = e.map
              /\ log' = Append(log, [index |-> seq_i,
                                     from_map |-> e.from_map,
                                     lane_ran |-> e.lane_ran,
                                     assembled |-> e.assembled,
                                     ComputeProbability |-> FALSE])
    /\ seq_i' = seq_i + 1
    /\ UNCHANGED <<pc, obstacle_ptr, FLAGS_enable_kf_tracking, callVars, netVars>>

\* line 65: the loop condition fails
EvaluateReturn ==
    /\ pc = "loop"
    /\ seq_i >= lane_sequence_size(obstacle_ptr)
    /\ pc' = "returned"
    /\ UNCHANGED <<obstacle_ptr, seq_i, feature_values_, obstacle_feature_values_map_,
                   extract, log, FLAGS_enable_kf_tracking, callVars, netVars>>

Init ==
    /\ FLAGS_enable_kf_tracking \in BOOLEAN
    /\ lane_call = NoCall
    /\ obstacle_call = NoCall
    /\ EvalIdle
    /\ NetIdle

Next == EvaluateEnter \/ EvaluateLoopBody \/ EvaluateReturn

Spec == Init /\ [][Next]_vars

(***************************************************************************)
(* The model (FnnVehicleModel) and the input vectors of the forward pass.  *)
(* The weights, biases and normalisation statistics of a model follow one  *)
(* of a few patterns; the layer dimensions are drawn freely, so the layers *)
(* of a model need not chain.  Input values and statistics are chosen so   *)
(* that (value - mean) / std is an integer.                                *)
(***************************************************************************)
Patterns ==
    {[activation |-> "relu",    weight |-> 1,  bias |-> 0,  mean |-> 0, std |-> 1],
     [activation |-> "sigmoid", weight |-> -1, bias |-> 1,  mean |-> 2, std |-> 2],
     [activation |-> "tanh",    weight |-> 1,  bias |-> -1, mean |-> 0, std |-> 2],
     [activation |-> "linear",  weight |-> 2,  bias |-> 1,  mean |-> 2, std |-> 1]}

Layer(dims, p) ==
    [layer_input_dim       |-> dims[1],
     layer_output_dim      |-> dims[2],
     layer_input_weight    |-> [row \in 1..dims[1] |-> [col \in 1..dims[2] |-> p.weight]],
     layer_bias            |-> [col \in 1..dims[2] |-> p.bias],
     layer_activation_type |-> p.activation]

FnnVehicleModel(dim_input, dimseq, p) ==
    [null         |-> FALSE,
     dim_input    |-> dim_input,
     num_layer    |-> Len(dimseq),
     layer        |-> [k \in 1..Len(dimseq) |-> Layer(dimseq[k], p)],
     samples_mean |-> [k \in 1..dim_input |-> p.mean],
     samples_std  |-> [k \in 1..dim_input |-> p.std]]

Models ==
    {FnnVehicleModel(d, dimseq, p) :
        d \in 0..MaxDim,
        dimseq \in SeqsUpTo((1..MaxDim) \X (1..MaxDim), MaxLayers),
        p \in Patterns}

InputValues == {0, 2}

\* input vectors of every length 0..MaxDim, all scalars equal
InputVectors == {[k \in 1..n |-> v] : n \in 0..MaxDim, v \in InputValues}

\* what a read past the end of a vector can return, per index
GarbageValues == {0, 1}

Garbage == [1..MaxDim -> GarbageValues]

(***************************************************************************)
(* ComputeProbability.                                                     *)
(***************************************************************************)
\* apollo::prediction::util::Normalize
Normalize(value, mean, std) == (value - mean) \div std

\* apollo::prediction::util::Relu
Relu(x) == IF x > 0 THEN x ELSE 0

\* apollo::prediction::util::Sigmoid, rounded to the nearest integer
Sigmoid(x) == IF x >= 0 THEN 1 ELSE 0

\* std::tanh, rounded to the nearest integer
Tanh(x) == IF x > 0 THEN 1 ELSE IF x < 0 THEN -1 ELSE 0

\* lines 300-311
Activate(layer_activation_type, neuron_output) ==
    IF layer_activation_type = "relu" THEN Relu(neuron_output)
    ELSE IF layer_activation_type = "sigmoid" THEN Sigmoid(neuron_output)
    ELSE IF layer_activation_type = "tanh" THEN Tanh(neuron_output)
    ELSE Sigmoid(neuron_output)

\* vector[index] as the code reads it (index 1-based here): past the end of
\* the vector the read is undefined and returns whatever the memory holds
ReadAt(vector, index, garbage) ==
    IF index \in 1..Len(vector) THEN vector[index] ELSE garbage[index]

\* line 272: the dimension check, and a mutation without it
DimMismatchNever(model, feature_values) == FALSE

DimMismatch(model, feature_values) == model.dim_input # Len(feature_values)

\* lines 281-286
NormalizedInput(model, feature_values, garbage) ==
    [k \in 1..model.dim_input |->
        Normalize(ReadAt(feature_values, k, garbage),
                  model.samples_mean[k], model.samples_std[k])]

\* lines 296-299: the weighted sum of rows row..layer_input_dim
RECURSIVE WeightedSum(_, _, _, _, _)
WeightedSum(layer, col, row, layer_input, garbage) ==
    IF row > layer.layer_input_dim THEN 0
    ELSE ReadAt(layer_input, row, garbage) * layer.layer_input_weight[row][col]
         + WeightedSum(layer, col, row + 1, layer_input, garbage)

\* lines 294-313: the neurons of one layer, in column order
LayerNeurons(layer, layer_input, garbage) ==
    [col \in 1..layer.layer_output_dim |->
        Activate(layer.layer_activation_type,
                 layer.layer_bias[col]
                 + WeightedSum(layer, col, 1, layer_input, garbage))]

\* lines 289-292: what layer i > 0 starts from. layer_input is cleared and
\* layer_output is swapped with itself: the input is left empty and the
\* output keeps the neurons of the earlier layers.
NextLayerInput(layer_input, layer_output) == <<>>

NextLayerOutput(layer_input, layer_output) == layer_output

\* lines 288-314: the loop over the layers, from layer k on (1-based here)
RECURSIVE LayerLoop(_, _, _, _, _)
LayerLoop(model, k, layer_input, layer_output, garbage) ==
    IF k > model.num_layer THEN layer_output
    ELSE LET input == IF k > 1 THEN NextLayerInput(layer_input, layer_output)
                      ELSE layer_input
             output == IF k > 1 THEN NextLayerOutput(layer_input, layer_output)
                       ELSE layer_output
         IN  LayerLoop(model, k + 1, input,
                       output \o LayerNeurons(model.layer[k], input, garbage),
                       garbage)

\* lines 268-324
ComputeProbability(model, feature_values, garbage) ==
    IF DimMismatch(model, feature_values)
    THEN [probability |-> 0, layers_evaluated |-> 0, layer_output |-> <<>>]
    ELSE LET layer_output ==
                 LayerLoop(model, 1,
                           NormalizedInput(model, feature_values, garbage),
                           <<>>, garbage)
         IN  [probability      |-> IF Len(layer_output) # 1 THEN 0
                                   ELSE layer_output[1],
              layers_evaluated |-> model.num_layer,
              layer_output     |-> layer_output]

(***************************************************************************)
(* SpecLane: SetLaneFeatureValues applied to every pose and lane sequence  *)
(* within the bounds.                                                      *)
(***************************************************************************)
InitLane ==
    /\ FLAGS_enable_kf_tracking \in BOOLEAN
    /\ lane_call = NoCall
    /\ obstacle_call = NoCall
    /\ EvalIdle
    /\ NetIdle

CallSetLaneFeatureValues ==
    /\ ~lane_call.called
    /\ \E feature \in PoseFeatures,
          lane_sequence \in LaneSequences(MaxSegments, MaxPoints, MaxLanePoints) :
          lane_call' = [called        |-> TRUE,
                        feature       |-> feature,
                        lane_sequence |-> lane_sequence,
                        result        |-> SetLaneFeatureValues(
                                              feature, lane_sequence,
                                              FLAGS_enable_kf_tracking)]
    /\ UNCHANGED <<FLAGS_enable_kf_tracking, obstacle_call, evalVars, netVars>>

NextLane == CallSetLaneFeatureValues

SpecLane == InitLane /\ [][NextLane]_vars

(***************************************************************************)
(* Reference notions for the lane block, stated on the lane sequence       *)
(* itself and not on the loops above.                                      *)
(***************************************************************************)
PointsOf(lane_sequence) ==
    UNION {{<<i, j>> : j \in 1..Len(lane_sequence.lane_segment[i].lane_point)} :
              i \in 1..Len(lane_sequence.lane_segment)}

PointAt(lane_sequence, p) == lane_sequence.lane_segment[p[1]].lane_point[p[2]]

\* segment-then-point order
PointBefore(p, q) == p[1] < q[1] \/ (p[1] = q[1] /\ p[2] < q[2])

\* the points with position data ("visitable points")
Visitable(lane_sequence) ==
    {p \in PointsOf(lane_sequence) : PointAt(lane_sequence, p).has_position}

\* the t-th visitable point, t in 1..Cardinality(Visitable(lane_sequence))
VisitableAt(lane_sequence, t) ==
    CHOOSE p \in Visitable(lane_sequence) :
        Cardinality({q \in Visitable(lane_sequence) : PointBefore(q, p)}) = t - 1

\* the t-th 4-tuple of a lane block
TupleAt(values, t) == SubSeq(values, 4 * t - 3, 4 * t)

PoseOK(feature) == feature.IsInitialized /\ feature.has_position

LaneCalled == lane_call.called

LaneK == Cardinality(Visitable(lane_call.lane_sequence))

LaneValues == lane_call.result.values

\* the real 4-tuple of the t-th visitable point of the call's lane sequence
RealTuple(t) ==
    LanePointValues(PointAt(lane_call.lane_sequence,
                            VisitableAt(lane_call.lane_sequence, t)),
                    lane_call.feature,
                    LaneHeading(lane_call.feature, FLAGS_enable_kf_tracking))

(***************************************************************************)
(* C4 (as stated): SetLaneFeatureValues outputs exactly LANE_FEATURE_SIZE  *)
(* scalars for every lane sequence whenever the latest feature is          *)
(* initialized and has a position, and an empty block only when it is      *)
(* uninitialized or has no position.                                       *)
(***************************************************************************)
C4_AlwaysFullLength ==
    LaneCalled =>
        /\ PoseOK(lane_call.feature) => Len(LaneValues) = LANE_FEATURE_SIZE
        /\ Len(LaneValues) = 0 => ~PoseOK(lane_call.feature)

(***************************************************************************)
(* C4 (amended): the lane block has exactly LANE_FEATURE_SIZE scalars when *)
(* the latest feature is initialized, has a position and the lane sequence *)
(* has at least one lane point with position data; in every other case     *)
(* (pose missing, or no visitable point: zero segments, empty segments,    *)
(* only points without position) the block is empty.                       *)
(***************************************************************************)
C4_LaneBlockLength ==
    LaneCalled =>
        Len(LaneValues) =
            IF PoseOK(lane_call.feature) /\ LaneK >= 1
            THEN LANE_FEATURE_SIZE ELSE 0

\* a padded block: some point lacks position, fewer than L/4 are visitable
C4_Witness ==
    /\ LaneCalled
    /\ PoseOK(lane_call.feature)
    /\ LaneK >= 1 /\ LaneK < LaneTuples
    /\ Visitable(lane_call.lane_sequence) # PointsOf(lane_call.lane_sequence)
    /\ Len(LaneValues) = LANE_FEATURE_SIZE

(***************************************************************************)
(* C5: with k visitable points, 1 <= k < L/4, the lane block is the k real *)
(* 4-tuples in lane-sequence order followed by copies of the k-th real     *)
(* 4-tuple up to length L; points without position take no slot.           *)
(***************************************************************************)
C5_PaddingRepeatsLastTuple ==
    (LaneCalled /\ PoseOK(lane_call.feature) /\ LaneK >= 1 /\ LaneK < LaneTuples) =>
        /\ Len(LaneValues) = LANE_FEATURE_SIZE
        /\ \A t \in 1..LaneTuples :
               TupleAt(LaneValues, t) = RealTuple(IF t <= LaneK THEN t ELSE LaneK)

\* two real tuples, a skipped point between them, then padding with the second
C5_Witness ==
    /\ LaneCalled
    /\ PoseOK(lane_call.feature)
    /\ LaneK = 2 /\ LaneK < LaneTuples
    /\ \E p \in PointsOf(lane_call.lane_sequence) :
           /\ ~PointAt(lane_call.lane_sequence, p).has_position
           /\ PointBefore(VisitableAt(lane_call.lane_sequence, 1), p)
           /\ PointBefore(p, VisitableAt(lane_call.lane_sequence, 2))
    /\ TupleAt(LaneValues, LaneTuples) = RealTuple(2)
    /\ RealTuple(2) # RealTuple(1)

(***************************************************************************)
(* C6: with more than L/4 visitable points the lane block is exactly the   *)
(* 4-tuples of the first L/4 visitable points, and no lane point after the *)
(* one that fills the L-th scalar is fetched, in its segment or in a later *)
(* one.                                                                    *)
(***************************************************************************)
C6_TruncatesAtL ==
    (LaneCalled /\ PoseOK(lane_call.feature) /\ LaneK > LaneTuples) =>
        /\ Len(LaneValues) = LANE_FEATURE_SIZE
        /\ \A t \in 1..LaneTuples : TupleAt(LaneValues, t) = RealTuple(t)
        /\ \A r \in 1..Len(lane_call.result.reads) :
               ~PointBefore(VisitableAt(lane_call.lane_sequence, LaneTuples),
                            lane_call.result.reads[r])

\* the block fills inside a segment that has a further point, and a later
\* segment has points too
C6_Witness ==
    /\ LaneCalled
    /\ PoseOK(lane_call.feature)
    /\ LaneK > LaneTuples
    /\ Len(LaneValues) = LANE_FEATURE_SIZE
    /\ LET last == VisitableAt(lane_call.lane_sequence, LaneTuples)
       IN  /\ <<last[1], last[2] + 1>> \in PointsOf(lane_call.lane_sequence)
           /\ <<last[1] + 1, 1>> \in PointsOf(lane_call.lane_sequence)
           /\ lane_call.result.reads[Len(lane_call.result.reads)] = last

(***************************************************************************)
(* SpecObstacle: SetObstacleFeatureValues applied to every obstacle within *)
(* the bounds.                                                             *)
(***************************************************************************)
InitObstacle ==
    /\ FLAGS_enable_kf_tracking \in BOOLEAN
    /\ lane_call = NoCall
    /\ obstacle_call = NoCall
    /\ EvalIdle
    /\ NetIdle

CallSetObstacleFeatureValues ==
    /\ ~obstacle_call.called
    /\ \E history \in Histories(MaxHistory) :
          obstacle_call' = [called   |-> TRUE,
                            obstacle |-> Obstacle(history),
                            result   |-> SetObstacleFeatureValues(
                                             Obstacle(history),
                                             FLAGS_enable_kf_tracking)]
    /\ UNCHANGED <<FLAGS_enable_kf_tracking, lane_call, evalVars, netVars>>

NextObstacle == CallSetObstacleFeatureValues

SpecObstacle == InitObstacle /\ [][NextObstacle]_vars

(***************************************************************************)
(* Reference notions for the history scan, stated on the history itself.   *)
(***************************************************************************)
\* an initialized feature older than the obstacle's window
TooOld(obstacle, feature) ==
    /\ feature.IsInitialized
    /\ feature.timestamp < timestamp(obstacle) - FLAGS_prediction_duration

\* index of the first initialized feature older than the window, or one past
\* the end of the history
StopIndexOf(obstacle) ==
    LET h == obstacle.history
    IN  IF \E a \in 1..Len(h) : TooOld(obstacle, h[a])
        THEN CHOOSE a \in 1..Len(h) :
                 /\ TooOld(obstacle, h[a])
                 /\ \A b \in 1..(a - 1) : ~TooOld(obstacle, h[b])
        ELSE Len(h) + 1

CarriesLaneFeature(feature) ==
    feature.IsInitialized /\ feature.has_lane /\ feature.lane.has_lane_feature

\* the usable records: the indices before the stop whose feature carries a
\* lane feature
UsableOf(obstacle) ==
    {a \in 1..(StopIndexOf(obstacle) - 1) : CarriesLaneFeature(obstacle.history[a])}

ObsHistory == obstacle_call.obstacle.history

ObsSeries == obstacle_call.result.series

StopIndex == StopIndexOf(obstacle_call.obstacle)

Usable == UsableOf(obstacle_call.obstacle)

IsIncreasing(seq) == \A a, b \in 1..Len(seq) : a < b => seq[a] < seq[b]

(***************************************************************************)
(* C10: the history scan is a prefix scan, newest first: uninitialized     *)
(* features are passed over, the scan ends at the first initialized        *)
(* feature older than timestamp - FLAGS_prediction_duration, nothing after *)
(* that feature contributes, and the collected series are exactly the      *)
(* samples of the scanned features that carry a lane feature, in history   *)
(* order.                                                                  *)
(***************************************************************************)
C10_PrefixScan ==
    obstacle_call.called =>
        /\ ObsSeries.scanned =
               [i \in 1..(IF StopIndex <= Len(ObsHistory)
                          THEN StopIndex ELSE Len(ObsHistory)) |-> i]
        /\ IsIncreasing(ObsSeries.collected)
        /\ {ObsSeries.collected[n] : n \in 1..Len(ObsSeries.collected)} = Usable
        /\ ObsSeries.count = Cardinality(Usable)
        /\ ObsSeries.thetas =
               [n \in 1..Len(ObsSeries.collected) |->
                   ObsHistory[ObsSeries.collected[n]].lane.lane_feature.angle_diff]
        /\ ObsSeries.dist_lbs =
               [n \in 1..Len(ObsSeries.collected) |->
                   ObsHistory[ObsSeries.collected[n]].lane.lane_feature.dist_to_left_boundary]
        /\ ObsSeries.timestamps =
               [n \in 1..Len(ObsSeries.collected) |->
                   ObsHistory[ObsSeries.collected[n]].timestamp]

\* the scan stopped at an old feature that is followed by an in-window
\* feature carrying a lane feature, which stays out of the series
C10_Witness ==
    /\ obstacle_call.called
    /\ Len(ObsHistory) = 3
    /\ StopIndex = 2
    /\ CarriesLaneFeature(ObsHistory[3])
    /\ ~TooOld(obstacle_call.obstacle, ObsHistory[3])
    /\ ObsSeries.collected = <<1>>

\* the scan passes over an uninitialized feature and collects the next one
C10_SkipReached ==
    /\ obstacle_call.called
    /\ Len(ObsHistory) = 3
    /\ ~ObsHistory[2].IsInitialized
    /\ ObsSeries.collected = <<1, 3>>

(***************************************************************************)
(* Claims on Evaluate and ExtractFeatureValues, under Spec.                *)
(***************************************************************************)
Extracted == pc # "idle" /\ extract.called

(***************************************************************************)
(* C3: whenever the obstacle block has OBSTACLE_FEATURE_SIZE scalars and   *)
(* the lane block has LANE_FEATURE_SIZE scalars, feature_values_ is the    *)
(* obstacle block followed by the lane block.  The code appends the lane   *)
(* block twice.                                                            *)
(***************************************************************************)
C3_ObstacleBlockThenLaneBlock ==
    (/\ Extracted
     /\ Len(extract.obstacle_feature_values) = OBSTACLE_FEATURE_SIZE
     /\ extract.lane_ran
     /\ Len(extract.lane_feature_values) = LANE_FEATURE_SIZE) =>
        /\ Len(feature_values_) = OBSTACLE_FEATURE_SIZE + LANE_FEATURE_SIZE
        /\ SubSeq(feature_values_, 1, OBSTACLE_FEATURE_SIZE)
               = extract.obstacle_feature_values
        /\ SubSeq(feature_values_, OBSTACLE_FEATURE_SIZE + 1, Len(feature_values_))
               = extract.lane_feature_values

(***************************************************************************)
(* C7: when the history window of the obstacle has no usable record, the   *)
(* obstacle block is empty, and for every lane sequence                    *)
(* ExtractFeatureValues leaves feature_values_ empty and does not run      *)
(* SetLaneFeatureValues: no lane sequence of the obstacle gets an input    *)
(* vector.                                                                 *)
(***************************************************************************)
C7_NoUsableRecordNoInput ==
    (Extracted /\ UsableOf(obstacle_ptr) = {}) =>
        /\ extract.obstacle_feature_values = <<>>
        /\ ~extract.lane_ran
        /\ feature_values_ = <<>>
        /\ \A n \in 1..Len(log) : ~log[n].lane_ran /\ ~log[n].assembled

\* both lane sequences of an obstacle handled, its latest feature having a
\* position and a lane without lane feature, the lane sequence having a
\* visitable point
C7_Witness ==
    /\ pc = "returned"
    /\ Len(log) = 2
    /\ UsableOf(obstacle_ptr) = {}
    /\ latest_feature(obstacle_ptr).has_position
    /\ Visitable(extract.lane_sequence) # {}
    /\ feature_values_ = <<>>

(***************************************************************************)
(* C8: for an obstacle that passes validation, Evaluate handles every lane *)
(* sequence 0..n-1 once, in index order, calls ComputeProbability for each *)
(* lane sequence whose input vector was assembled, and a lane sequence     *)
(* skipped for a block-length failure does not stop the later ones.        *)
(* Evaluate never calls ComputeProbability.                                *)
(***************************************************************************)
C8_EveryHypothesisHandledAndScored ==
    (pc = "returned" /\ ~obstacle_ptr.null /\ Validate(obstacle_ptr) = "loop") =>
        /\ Len(log) = lane_sequence_size(obstacle_ptr)
        /\ \A n \in 1..Len(log) :
               /\ log[n].index = n - 1
               /\ log[n].assembled => log[n].ComputeProbability

\* the part of C8 the code does: every lane sequence handled once, in order
C8_EveryHypothesisHandled ==
    (pc = "returned" /\ ~obstacle_ptr.null /\ Validate(obstacle_ptr) = "loop") =>
        /\ Len(log) = lane_sequence_size(obstacle_ptr)
        /\ \A n \in 1..Len(log) : log[n].index = n - 1

\* a skipped lane sequence followed by an assembled one
C8_SkipThenAssembled ==
    /\ pc = "returned"
    /\ Len(log) = 2
    /\ ~log[1].assembled
    /\ log[2].assembled

(***************************************************************************)
(* C9: within one Evaluate on an obstacle with n >= 2 lane sequences,      *)
(* SetObstacleFeatureValues runs for the first lane sequence only and the  *)
(* later ones take the obstacle block from obstacle_feature_values_map_.   *)
(* The code never stores the block in the map.                             *)
(***************************************************************************)
C9_ObstacleBlockComputedOnce ==
    (pc = "returned" /\ Len(log) >= 2) =>
        /\ ~log[1].from_map
        /\ \A n \in 2..Len(log) : log[n].from_map

(***************************************************************************)
(* SpecNet: a model is loaded and ComputeProbability runs on an input      *)
(* vector, for every model and input vector within the bounds.             *)
(***************************************************************************)
InitNet ==
    /\ FLAGS_enable_kf_tracking = FALSE
    /\ lane_call = NoCall
    /\ obstacle_call = NoCall
    /\ pc = "idle"
    /\ obstacle_ptr = nullptr
    /\ seq_i = 0
    /\ feature_values_ \in InputVectors
    /\ obstacle_feature_values_map_ = <<>>
    /\ extract = NoCall
    /\ log = <<>>
    /\ NetIdle

\* lines 253-266: whatever the file yields, model_ptr_ holds a model
\* afterwards; a file that cannot be opened leaves the empty model
LoadModel ==
    /\ model_ptr_.null
    /\ \E model \in Models : model_ptr_' = model
    /\ UNCHANGED <<FLAGS_enable_kf_tracking, callVars, evalVars, probability_call>>

\* lines 268-324; line 269 aborts when no model was loaded
CallComputeProbability ==
    /\ ~model_ptr_.null
    /\ ~probability_call.called
    /\ \E garbage \in Garbage :
          probability_call' =
              [called |-> TRUE,
               result |-> ComputeProbability(model_ptr_, feature_values_, garbage)]
    /\ UNCHANGED <<FLAGS_enable_kf_tracking, callVars, evalVars, model_ptr_>>

NextNet == LoadModel \/ CallComputeProbability

SpecNet == InitNet /\ [][NextNet]_vars

(***************************************************************************)
(* The forward pass as the documentation describes it: the output vector   *)
(* of a layer is the input vector of the next.                             *)
(***************************************************************************)
RECURSIVE RefSum(_, _, _, _)
RefSum(layer, col, row, input) ==
    IF row > layer.layer_input_dim THEN 0
    ELSE input[row] * layer.layer_input_weight[row][col]
         + RefSum(layer, col, row + 1, input)

RefLayer(layer, input) ==
    [col \in 1..layer.layer_output_dim |->
        Activate(layer.layer_activation_type,
                 layer.layer_bias[col] + RefSum(layer, col, 1, input))]

RECURSIVE RefForward(_, _, _)
RefForward(model, k, input) ==
    IF k > model.num_layer THEN input
    ELSE RefForward(model, k + 1, RefLayer(model.layer[k], input))

\* the layers chain: each takes what the one before yields
Chains(model) ==
    /\ model.num_layer >= 1
    /\ model.layer[1].layer_input_dim = model.dim_input
    /\ \A k \in 1..(model.num_layer - 1) :
           model.layer[k + 1].layer_input_dim = model.layer[k].layer_output_dim

ProbabilityCalled == ~model_ptr_.null /\ probability_call.called

(***************************************************************************)
(* C1: ComputeProbability returns exactly 0.0 when the length of           *)
(* feature_values_ differs from the model's dim_input, whatever the model  *)
(* and the input vector, and evaluates no layer.                           *)
(***************************************************************************)
C1_DimMismatchReturnsZero ==
    (ProbabilityCalled /\ Len(feature_values_) # model_ptr_.dim_input) =>
        /\ probability_call.result.probability = 0
        /\ probability_call.result.layers_evaluated = 0
        /\ probability_call.result.layer_output = <<>>

\* a mismatch on a model that would yield a non-zero probability on an
\* input of the right length
C1_Witness ==
    /\ ProbabilityCalled
    /\ Len(feature_values_) # model_ptr_.dim_input
    /\ Len(feature_values_) > 0
    /\ model_ptr_.num_layer = 1
    /\ Chains(model_ptr_)
    /\ model_ptr_.layer[1].layer_output_dim = 1
    /\ model_ptr_.layer[1].layer_activation_type = "relu"
    /\ probability_call.result.probability = 0

(***************************************************************************)
(* C2: for a model of two or more layers that chain and whose last layer   *)
(* has one output, and an input vector of length dim_input, the returned   *)
(* probability is the last layer's activated output computed from the      *)
(* output of the layer before it.  The code clears the layer input and     *)
(* keeps appending to one output vector.                                   *)
(***************************************************************************)
C2_LayerOutputFeedsNextLayer ==
    (/\ ProbabilityCalled
     /\ model_ptr_.num_layer >= 2
     /\ Chains(model_ptr_)
     /\ model_ptr_.layer[model_ptr_.num_layer].layer_output_dim = 1
     /\ Len(feature_values_) = model_ptr_.dim_input) =>
        probability_call.result.probability =
            RefForward(model_ptr_, 1,
                       [k \in 1..model_ptr_.dim_input |->
                           Normalize(feature_values_[k],
                                     model_ptr_.samples_mean[k],
                                     model_ptr_.samples_std[k])])[1]

\* a single layer is evaluated as documented
SingleLayerAgrees ==
    (/\ ProbabilityCalled
     /\ model_ptr_.num_layer = 1
     /\ Chains(model_ptr_)
     /\ model_ptr_.layer[1].layer_output_dim = 1
     /\ Len(feature_values_) = model_ptr_.dim_input) =>
        probability_call.result.probability =
            RefForward(model_ptr_, 1,
                       [k \in 1..model_ptr_.dim_input |->
                           Normalize(feature_values_[k],
                                     model_ptr_.samples_mean[k],
                                     model_ptr_.samples_std[k])])[1]

====
